---- MODULE Spec2Model ----
(***************************************************************************)
(* Video sessionization of edx/analytics/tasks/video.py.                   *)
(*                                                                         *)
(* UserVideoSessionTask.reducer receives the events of one user, sorts     *)
(* them and walks the sorted list once, keeping at most one open           *)
(* VideoSession and yielding a record whenever a session is closed with a  *)
(* length of at least VIDEO_SESSION_THRESHOLD_MIN.                         *)
(*                                                                         *)
(* Spec        feeds the loop of the reducer one event at a time; the      *)
(*             events come in the order sorted() produces.                 *)
(* SpecArrival hands the reducer a whole list of events in arrival order   *)
(*             and runs it (sort, loop, final flush) as one step.          *)
(*                                                                         *)
(* Timestamps are whole seconds since an epoch; the timestamp strings of   *)
(* the source have one fixed format, so their string order is their time   *)
(* order.  Offsets are whole seconds.                                      *)
(***************************************************************************)
EXTENDS Integers, Sequences, FiniteSets, TLC

VARIABLES
    username,          \* the key of the reducer call
    events,            \* SpecArrival: the events handed to the reducer, in
                       \* arrival order (Spec feeds the loop directly: <<>>)
    pc,                \* "start" | "loop" | "done" | "raised"
    session,           \* <<>> (None) or <<VideoSession>>
    out,               \* the records yielded so far
    event,             \* <<>> or <<the event of the current loop iteration>>
    log,               \* history: one entry per session opened
    seen,              \* history: how many events, and how many Play/Seek
                       \* events, the loop has taken
    stage,             \* SpecStages: the last call of a mapper or of
                       \* VideoUsageTask.reducer, its input and its output
    calls              \* SpecParallel: the reducer calls that run side by
                       \* side, their inputs, positions and local variables

vars == <<username, events, pc, session, out, event, log, seen, stage, calls>>

----------------------------------------------------------------------------
(* Constants of the source *)

VIDEO_PLAYED == "play_video"
VIDEO_PAUSED == "pause_video"
VIDEO_POSITION_CHANGED == "seek_video"
VIDEO_STOPPED == "stop_video"
VIDEO_EVENT_TYPES ==
    {VIDEO_PLAYED, VIDEO_PAUSED, VIDEO_POSITION_CHANGED, VIDEO_STOPPED}
VIDEO_SESSION_END_INDICATORS ==
    {"seq_next", "seq_prev", "seq_goto", "page_close", "/jsi18n/", "/logout"}
VIDEO_SESSION_THRESHOLD_MIN == 1
VIDEO_SESSION_DANGLING_THRESHOLD == 30 * 60
\* datetime.timedelta(n) is n DAYS; its length in seconds
SecondsPerDay == 24 * 60 * 60
timedelta(days) == days * SecondsPerDay

----------------------------------------------------------------------------
(* Python values of the event payload: None, a number, a numeric string   *)
(* such as "1", or a string that is no number.                            *)

NoneV == [k |-> "none", v |-> 0]
Num(n) == [k |-> "num", v |-> n]
NumStr(n) == [k |-> "numstr", v |-> n]
BadStr == [k |-> "str", v |-> 0]
\* the module id is a string, or None
None == "<None>"

\* bool(value): None, 0 and "" are false
truthy(value) == ~(value.k = "none" \/ (value.k = "num" /\ value.v = 0))

\* float(value) raises ValueError on a string that is no number
float_raises(value) == value.k = "str"
float(value) == IF value.k = "numstr" THEN Num(value.v) ELSE value

\* a - b and a + b raise TypeError unless both are numbers
is_number(value) == value.k = "num"

----------------------------------------------------------------------------
(* sorted(events): Python 2 orders the event tuples (timestamp,           *)
(* event_type, encoded_module_id, old_time, current_time) component by    *)
(* component; None sorts before every number and every number before      *)
(* every string; strings sort by their characters.                        *)

\* the event types in string order
EventTypeOrder ==
    << "/jsi18n/", "/logout", "page_close", "pause_video", "play_video",
       "seek_video", "seq_goto", "seq_next", "seq_prev", "stop_video" >>
\* the module ids in string order, None first
ModuleOrder == << None, "m1", "m2" >>

IndexOf(seq, x) == CHOOSE n \in 1..Len(seq) : seq[n] = x

\* a key whose lexicographic integer order is the Python 2 order of the value
value_key(value) ==
    CASE value.k = "none"   -> <<0, 0>>
      [] value.k = "num"    -> <<1, value.v>>
      [] value.k = "numstr" -> <<2, value.v>>
      [] OTHER              -> <<3, 0>>

event_key(e) ==
    << e.timestamp, IndexOf(EventTypeOrder, e.event_type),
       IndexOf(ModuleOrder, e.encoded_module_id),
       value_key(e.old_time)[1], value_key(e.old_time)[2],
       value_key(e.current_time)[1], value_key(e.current_time)[2] >>

RECURSIVE key_lt(_, _)
key_lt(a, b) ==
    IF a = <<>> THEN FALSE
    ELSE IF Head(a) # Head(b) THEN Head(a) < Head(b)
    ELSE key_lt(Tail(a), Tail(b))

\* mutant of event_lt: the list is left in arrival order
event_lt_unsorted(e1, e2) == FALSE

\* mutant of event_lt: the list is ordered by timestamp alone
event_lt_timestamp_only(e1, e2) == e1.timestamp < e2.timestamp

\* tuple comparison e1 < e2
event_lt(e1, e2) == key_lt(event_key(e1), event_key(e2))

\* list.sort is stable: an element goes after the elements not greater than it
RECURSIVE insert_sorted(_, _)
insert_sorted(seq, e) ==
    IF seq = <<>> THEN <<e>>
    ELSE IF event_lt(e, Head(seq)) THEN <<e>> \o seq
    ELSE <<Head(seq)>> \o insert_sorted(Tail(seq), e)

RECURSIVE sorted(_)
sorted(seq) ==
    IF seq = <<>> THEN <<>>
    ELSE insert_sorted(sorted(SubSeq(seq, 1, Len(seq) - 1)), seq[Len(seq)])

----------------------------------------------------------------------------
(* The helpers the loop body of the reducer defines *)

\* hashlib.md5 over username, module id and timestamp string: the digest is
\* modelled by the triple it is computed from
session_id_of(user, module_id, timestamp) == <<user, module_id, timestamp>>

\* None.encode('utf-8') raises AttributeError
start_session_raises(e) == e.encoded_module_id = None

start_session(user, e, current_time) ==
    [ session_id        |-> session_id_of(user, e.encoded_module_id, e.timestamp),
      start_timestamp   |-> e.timestamp,
      encoded_module_id |-> e.encoded_module_id,
      start_offset      |-> current_time ]

\* the text rendering of the six fields; the offsets of a record are numbers
encode_tuple(user, s, end_time) ==
    [ username          |-> user,
      session_id        |-> s.session_id,
      encoded_module_id |-> s.encoded_module_id,
      start_timestamp   |-> s.start_timestamp,
      start_offset      |-> s.start_offset.v,
      end_offset        |-> end_time.v ]

\* mutant of end_session: the length is compared with 0, not with the threshold
end_session_zero_allowed(user, s, end_time) ==
    IF ~(is_number(end_time) /\ is_number(s.start_offset))
    THEN <<>>
    ELSE IF end_time.v - s.start_offset.v < 0
         THEN <<>>
         ELSE << encode_tuple(user, s, end_time) >>

\* the record as a sequence of length 0 (None) or 1
end_session(user, s, end_time) ==
    IF ~(is_number(end_time) /\ is_number(s.start_offset))
    THEN <<>>                                   \* TypeError, logged
    ELSE LET session_length == end_time.v - s.start_offset.v IN
         IF session_length < VIDEO_SESSION_THRESHOLD_MIN
         THEN <<>>
         ELSE << encode_tuple(user, s, end_time) >>

\* mutant of end_implicit_session: a session of exactly the dangling threshold
\* is still closed
end_implicit_session_inclusive(user, sess, parsed_timestamp) ==
    IF sess = <<>> THEN <<>>
    ELSE LET s == sess[1]
             session_length == parsed_timestamp - s.start_timestamp
         IN  IF session_length <= VIDEO_SESSION_DANGLING_THRESHOLD
             THEN IF ~is_number(s.start_offset)
                  THEN <<>>
                  ELSE end_session(user, s, Num(s.start_offset.v + session_length))
             ELSE <<>>

end_implicit_session(user, sess, parsed_timestamp) ==
    IF sess = <<>> THEN <<>>
    ELSE LET s == sess[1]
             session_length == parsed_timestamp - s.start_timestamp
         IN  IF session_length < VIDEO_SESSION_DANGLING_THRESHOLD
             THEN IF ~is_number(s.start_offset)
                  THEN <<>>                     \* TypeError, logged
                  ELSE end_session(user, s, Num(s.start_offset.v + session_length))
             ELSE <<>>

----------------------------------------------------------------------------
(* One iteration of the loop of the reducer, as a function of the open    *)
(* session and the event.  The result names the session afterwards, the   *)
(* record yielded (a sequence of length 0 or 1), whether the iteration     *)
(* raised, whether it closed the session that was open (end_session or     *)
(* end_implicit_session was called for it, or it was dropped) and whether  *)
(* it opened one.                                                          *)

Result(sess, yielded, raised, closed, opened) ==
    [ session |-> sess, yielded |-> yielded, raised |-> raised,
      closed |-> closed, opened |-> opened ]

\* mutant of on_play: a skipped Play moves the start of the open session
on_play_skip_restarts(user, sess, e, current_time) ==
    IF sess # <<>>
       /\ e.timestamp - sess[1].start_timestamp
            < timedelta(VIDEO_SESSION_THRESHOLD_MIN)
    THEN Result(<<[sess[1] EXCEPT !.start_timestamp = e.timestamp]>>,
                <<>>, FALSE, FALSE, FALSE)
    ELSE LET record == IF sess # <<>>
                       THEN end_session(user, sess[1], current_time)
                       ELSE <<>>
         IN  IF start_session_raises(e)
             THEN Result(sess, record, TRUE, sess # <<>>, FALSE)
             ELSE Result(<<start_session(user, e, current_time)>>, record,
                         FALSE, sess # <<>>, TRUE)

\* if event_type == VIDEO_PLAYED
on_play(user, sess, e, current_time) ==
    IF sess # <<>>
       /\ e.timestamp - sess[1].start_timestamp
            < timedelta(VIDEO_SESSION_THRESHOLD_MIN)
    THEN Result(sess, <<>>, FALSE, FALSE, FALSE)            \* continue
    ELSE LET record == IF sess # <<>>
                       THEN end_session(user, sess[1], current_time)
                       ELSE <<>>
         IN  IF start_session_raises(e)
             THEN Result(sess, record, TRUE, sess # <<>>, FALSE)
             ELSE Result(<<start_session(user, e, current_time)>>, record,
                         FALSE, sess # <<>>, TRUE)

\* mutant of on_pause_stop: "session = None" is missing
on_pause_stop_keeps_session(user, sess, e, current_time) ==
    IF sess # <<>>
    THEN Result(sess, end_session(user, sess[1], current_time), FALSE, TRUE, FALSE)
    ELSE Result(sess, <<>>, FALSE, FALSE, FALSE)

\* mutant of on_pause_stop: the dangling threshold is applied to the close
on_pause_stop_dangling(user, sess, e, current_time) ==
    IF sess # <<>>
    THEN Result(<<>>,
                IF e.timestamp - sess[1].start_timestamp
                     < VIDEO_SESSION_DANGLING_THRESHOLD
                THEN end_session(user, sess[1], current_time)
                ELSE <<>>,
                FALSE, TRUE, FALSE)
    ELSE Result(sess, <<>>, FALSE, FALSE, FALSE)

\* elif event_type == VIDEO_PAUSED or event_type == VIDEO_STOPPED
on_pause_stop(user, sess, e, current_time) ==
    IF sess # <<>>
    THEN Result(<<>>, end_session(user, sess[1], current_time), FALSE, TRUE, FALSE)
    ELSE Result(sess, <<>>, FALSE, FALSE, FALSE)

\* elif event_type == VIDEO_POSITION_CHANGED
on_seek(user, sess, e, current_time) ==
    LET record == IF sess # <<>>
                  THEN end_session(user, sess[1], e.old_time)
                  ELSE <<>>
    IN  IF start_session_raises(e)
        THEN Result(sess, record, TRUE, sess # <<>>, FALSE)
        ELSE Result(<<start_session(user, e, current_time)>>, record,
                    FALSE, sess # <<>>, TRUE)

\* elif event_type in VIDEO_SESSION_END_INDICATORS
on_indicator(user, sess, e, current_time) ==
    Result(<<>>, end_implicit_session(user, sess, e.timestamp),
           FALSE, sess # <<>>, FALSE)

\* the body of "for event in sorted_events"
loop_body(user, sess, e) ==
    IF truthy(e.current_time) /\ float_raises(e.current_time)
    THEN Result(sess, <<>>, TRUE, FALSE, FALSE)               \* ValueError
    ELSE LET current_time == IF truthy(e.current_time)
                             THEN float(e.current_time)
                             ELSE e.current_time
         IN  CASE e.event_type = VIDEO_PLAYED
                    -> on_play(user, sess, e, current_time)
               [] e.event_type \in {VIDEO_PAUSED, VIDEO_STOPPED}
                    -> on_pause_stop(user, sess, e, current_time)
               [] e.event_type = VIDEO_POSITION_CHANGED
                    -> on_seek(user, sess, e, current_time)
               [] e.event_type \in VIDEO_SESSION_END_INDICATORS
                    -> on_indicator(user, sess, e, current_time)
               [] OTHER
                    -> Result(sess, <<>>, FALSE, FALSE, FALSE)

\* mutant of final_flush: the session left open is dropped
final_flush_drops_session(user, sess, last) ==
    Result(<<>>, <<>>, FALSE, sess # <<>>, FALSE)

\* after the loop: end_implicit_session() reads the parsed_timestamp of the
\* last iteration
final_flush(user, sess, last) ==
    Result(<<>>, end_implicit_session(user, sess, last.timestamp),
           FALSE, sess # <<>>, FALSE)

----------------------------------------------------------------------------
(* The state of one reducer call and its history *)

\* history of the sessions: each session opened, the timestamp of the event
\* that closed it (meaningful once closes > 0), how often it was closed and
\* how many records it yielded
close_last(lg, r, at) ==
    IF r.closed /\ lg # <<>>
    THEN [lg EXCEPT ![Len(lg)] =
            [@ EXCEPT !.closed_at = at, !.closes = @ + 1,
                      !.emits = @ + Len(r.yielded)]]
    ELSE lg

open_new(lg, r, at) ==
    IF r.opened
    THEN Append(lg, [session |-> r.session[1], closed_at |-> at,
                     closes |-> 0, emits |-> 0])
    ELSE lg

State(p, sess, o, ev, lg, sn) ==
    [ pc |-> p, session |-> sess, out |-> o, event |-> ev, log |-> lg,
      seen |-> sn ]

opens_session(e) == e.event_type \in {VIDEO_PLAYED, VIDEO_POSITION_CHANGED}

\* history of the events: how many the loop has taken, how many of them
\* Play or Seek, and how many it has taken since the open session was
\* opened that were not a Play passed over by "continue"
NothingSeen == [events |-> 0, play_seek |-> 0, others_since_open |-> 0]

count_event(sn, e, r) ==
    [ events |-> sn.events + 1,
      play_seek |-> sn.play_seek + (IF opens_session(e) THEN 1 ELSE 0),
      others_since_open |->
          IF r.session = <<>> \/ r.opened THEN 0
          ELSE IF e.event_type = VIDEO_PLAYED /\ ~r.closed /\ ~r.raised
          THEN sn.others_since_open
          ELSE sn.others_since_open + 1 ]

\* the state after one loop iteration on event e
after_event(user, st, e) ==
    LET r == loop_body(user, st.session, e) IN
    State(IF r.raised THEN "raised" ELSE "loop",
          r.session,
          st.out \o r.yielded,
          <<e>>,
          open_new(close_last(st.log, r, e.timestamp), r, e.timestamp),
          count_event(st.seen, e, r))

\* the state after the statements that follow the loop
after_loop(user, st) ==
    LET r == final_flush(user, st.session, st.event[1]) IN
    State("done", r.session, st.out \o r.yielded, st.event,
          close_last(st.log, r, st.event[1].timestamp), st.seen)

----------------------------------------------------------------------------
(* Inputs *)

\* Spec and SpecArrival make no use of stage and calls
NoStage == [op |-> "none"]
NoCalls == <<>>

\* bounds of the model
MaxEvents == 3
MaxArrival == 3

Usernames == {"u1"}
Timestamps == {0, 1, VIDEO_SESSION_DANGLING_THRESHOLD, SecondsPerDay}
Offsets == {Num(0), Num(1)}

Event(ts, ty, m, o, c) ==
    [ timestamp |-> ts, event_type |-> ty, encoded_module_id |-> m,
      old_time |-> o, current_time |-> c ]

\* What UserVideoSessionTask.mapper yields for one user.  A seek event has
\* old_time and new_time, the other video events currentTime only, the end
\* indicators neither a module id nor offsets.  A field the payload lacks is
\* None; a field may hold a string.
PlayEvents ==
    { Event(ts, VIDEO_PLAYED, m, NoneV, c) :
        ts \in Timestamps, m \in {None, "m1", "m2"},
        c \in Offsets \cup {NoneV, NumStr(1), BadStr} }
PauseEvents ==
    { Event(ts, VIDEO_PAUSED, "m1", NoneV, c) :
        ts \in Timestamps, c \in Offsets \cup {NoneV, NumStr(1), BadStr} }
StopEvents ==
    { Event(ts, VIDEO_STOPPED, "m1", NoneV, c) :
        ts \in Timestamps, c \in Offsets }
SeekEvents ==
    { Event(ts, VIDEO_POSITION_CHANGED, m, o, c) :
        ts \in Timestamps, m \in {None, "m1"},
        o \in Offsets \cup {NoneV, NumStr(1)}, c \in Offsets \cup {NoneV} }
    \cup
    { Event(ts, VIDEO_POSITION_CHANGED, "m1", Num(0), BadStr) :
        ts \in Timestamps }
IndicatorEvents ==
    { Event(ts, ty, None, NoneV, NoneV) :
        ts \in Timestamps, ty \in {"seq_next", "page_close"} }

EventUniverse ==
    PlayEvents \cup PauseEvents \cup StopEvents \cup SeekEvents
    \cup IndicatorEvents

----------------------------------------------------------------------------
(* Spec: the loop of the reducer, fed the sorted events one at a time *)

Current == State(pc, session, out, event, log, seen)

Become(st) ==
    /\ pc' = st.pc
    /\ session' = st.session
    /\ out' = st.out
    /\ event' = st.event
    /\ log' = st.log
    /\ seen' = st.seen

Init ==
    /\ username \in Usernames
    /\ events = <<>>
    /\ pc = "loop"
    /\ session = <<>>
    /\ out = <<>>
    /\ event = <<>>
    /\ log = <<>>
    /\ seen = NothingSeen
    /\ stage = NoStage
    /\ calls = NoCalls

\* e can follow the events taken so far in sorted(events)
NextInOrder(e) == IF event = <<>> THEN TRUE ELSE ~event_lt(e, event[1])

Iterate(e) ==
    /\ pc = "loop"
    /\ seen.events < MaxEvents
    /\ NextInOrder(e)
    /\ Become(after_event(username, Current, e))
    /\ UNCHANGED <<username, events, stage, calls>>

ConversionError ==
    \E e \in EventUniverse :
        /\ truthy(e.current_time) /\ float_raises(e.current_time)
        /\ Iterate(e)

PlayEvent ==
    \E e \in EventUniverse :
        /\ ~float_raises(e.current_time)
        /\ e.event_type = VIDEO_PLAYED
        /\ Iterate(e)

PauseStopEvent ==
    \E e \in EventUniverse :
        /\ ~float_raises(e.current_time)
        /\ e.event_type \in {VIDEO_PAUSED, VIDEO_STOPPED}
        /\ Iterate(e)

SeekEvent ==
    \E e \in EventUniverse :
        /\ ~float_raises(e.current_time)
        /\ e.event_type = VIDEO_POSITION_CHANGED
        /\ Iterate(e)

IndicatorEvent ==
    \E e \in EventUniverse :
        /\ e.event_type \in VIDEO_SESSION_END_INDICATORS
        /\ Iterate(e)

\* the list is exhausted; a reducer is called with at least one event
FinalFlush ==
    /\ pc = "loop"
    /\ seen.events >= 1
    /\ Become(after_loop(username, Current))
    /\ UNCHANGED <<username, events, stage, calls>>

Next ==
    \/ ConversionError
    \/ PlayEvent
    \/ PauseStopEvent
    \/ SeekEvent
    \/ IndicatorEvent
    \/ FinalFlush

Spec == Init /\ [][Next]_vars

----------------------------------------------------------------------------
(* SpecArrival: one call of the reducer on a list in arrival order *)

RECURSIVE run_loop(_, _, _)
run_loop(user, st, evs) ==
    IF evs = <<>> \/ st.pc = "raised" THEN st
    ELSE run_loop(user, after_event(user, st, Head(evs)), Tail(evs))

\* sorted(events), the loop, the statements after the loop
reducer(user, evs) ==
    LET st == run_loop(user,
                       State("loop", <<>>, <<>>, <<>>, <<>>,
                             NothingSeen),
                       sorted(evs))
    IN  IF st.pc = "raised" THEN st ELSE after_loop(user, st)

\* events of two instants that tie on every prefix of the sort key
ArrivalUniverse ==
    UNION { { Event(ts, VIDEO_PLAYED, "m1", NoneV, Num(0)),
              Event(ts, VIDEO_PLAYED, "m1", NoneV, Num(1)),
              Event(ts, VIDEO_PLAYED, None, NoneV, Num(0)),
              Event(ts, VIDEO_PAUSED, "m1", NoneV, Num(1)),
              Event(ts, VIDEO_POSITION_CHANGED, "m1", NoneV, Num(0)),
              Event(ts, VIDEO_POSITION_CHANGED, "m1", Num(1), Num(0)),
              Event(ts, "seq_next", None, NoneV, NoneV) } : ts \in {0, 1} }

ArrivalLists == UNION { [1..n -> ArrivalUniverse] : n \in 1..MaxArrival }

InitArrival ==
    /\ username \in Usernames
    /\ events \in ArrivalLists
    /\ pc = "start"
    /\ session = <<>>
    /\ out = <<>>
    /\ event = <<>>
    /\ log = <<>>
    /\ seen = NothingSeen
    /\ stage = NoStage
    /\ calls = NoCalls

RunReducer ==
    /\ pc = "start"
    /\ Become(reducer(username, events))
    /\ UNCHANGED <<username, events, stage, calls>>

NextArrival == RunReducer

SpecArrival == InitArrival /\ [][NextArrival]_vars

----------------------------------------------------------------------------
(* Vocabulary of the properties *)

\* this step is a loop iteration; its event is event'[1]
Iterated == pc = "loop" /\ seen'.events = seen.events + 1

\* the record of session s closed at the number end
RecordOf(s, end) ==
    [ username          |-> username,
      session_id        |-> s.session_id,
      encoded_module_id |-> s.encoded_module_id,
      start_timestamp   |-> s.start_timestamp,
      start_offset      |-> s.start_offset.v,
      end_offset        |-> end ]

\* the close of session s at the value end_time yields a record
Valid(s, end_time) ==
    /\ is_number(s.start_offset)
    /\ is_number(end_time)
    /\ end_time.v - s.start_offset.v >= 1

\* out' when session s is closed at end_time
Emits(s, end_time) ==
    IF Valid(s, end_time)
    THEN out' = Append(out, RecordOf(s, end_time.v))
    ELSE out' = out

LastLog == log[Len(log)]

RECURSIVE SumEmits(_)
SumEmits(lg) == IF lg = <<>> THEN 0 ELSE Head(lg).emits + SumEmits(Tail(lg))

\* the session a Play or Seek event e opens
Opened(e) ==
    [ session_id        |-> <<username, e.encoded_module_id, e.timestamp>>,
      start_timestamp   |-> e.timestamp,
      encoded_module_id |-> e.encoded_module_id,
      start_offset      |-> float(e.current_time) ]

\* seconds between the start of the open session and the event of this step
Elapsed == event'[1].timestamp - session[1].start_timestamp

\* the synthetic end offset of an implicit close
ImpliedEnd(s, elapsed) ==
    IF is_number(s.start_offset) THEN Num(s.start_offset.v + elapsed) ELSE NoneV

----------------------------------------------------------------------------
\* C1: every record the reducer yields, whichever path closed the session,
\* has end_offset - start_offset >= 1; a close shorter than that (zero or
\* negative length included) yields nothing.
C1_MinimumLength ==
    \A n \in 1..Len(out) : out[n].end_offset - out[n].start_offset >= 1

\* a record of length exactly 1 was yielded and another session was closed
\* without a record
C1_Witness ==
    /\ \E n \in 1..Len(out) : out[n].end_offset - out[n].start_offset = 1
    /\ \E k \in 1..Len(log) :
          /\ log[k].closes = 1 /\ log[k].emits = 0
          /\ is_number(log[k].session.start_offset)

----------------------------------------------------------------------------
\* C2: a Play that arrives while a session is open is skipped if less than
\* 1 second has passed since the session started; otherwise the open session
\* is closed at the Play's offset and a new one is opened at the Play's
\* offset and timestamp.
C2_PlayWhileOpen ==
    [][ ( /\ Iterated
          /\ session # <<>>
          /\ event'[1].event_type = VIDEO_PLAYED
          /\ pc' = "loop" )
        => IF Elapsed < VIDEO_SESSION_THRESHOLD_MIN
           THEN out' = out /\ session' = session
           ELSE /\ Emits(session[1], float(event'[1].current_time))
                /\ session' = <<Opened(event'[1])>> ]_vars

----------------------------------------------------------------------------
\* C3 as stated: a boundary indicator that arrives while a session is open
\* discards the session if more than 1800 s have passed since its start and
\* otherwise (1800 s exactly included) closes it at start_offset + elapsed;
\* no session is open afterwards.
C3_IndicatorUpTo1800 ==
    [][ ( /\ Iterated
          /\ session # <<>>
          /\ event'[1].event_type \in VIDEO_SESSION_END_INDICATORS )
        => /\ pc' = "loop"
           /\ session' = <<>>
           /\ IF Elapsed > VIDEO_SESSION_DANGLING_THRESHOLD
              THEN out' = out
              ELSE Emits(session[1], ImpliedEnd(session[1], Elapsed)) ]_vars

\* C3 amended: the session is discarded if 1800 s or more have passed since
\* its start and closed at start_offset + elapsed only if fewer than 1800 s
\* have passed; no session is open afterwards.
C3_IndicatorBelow1800 ==
    [][ ( /\ Iterated
          /\ session # <<>>
          /\ event'[1].event_type \in VIDEO_SESSION_END_INDICATORS )
        => /\ pc' = "loop"
           /\ session' = <<>>
           /\ IF Elapsed >= VIDEO_SESSION_DANGLING_THRESHOLD
              THEN out' = out
              ELSE Emits(session[1], ImpliedEnd(session[1], Elapsed)) ]_vars

\* a page_close exactly 1800 s after the start of a session with a numeric
\* start offset discarded it
C3_Witness ==
    /\ pc = "loop" /\ event # <<>> /\ log # <<>>
    /\ event[1].event_type = "page_close"
    /\ session = <<>>
    /\ LastLog.closes = 1 /\ LastLog.emits = 0
    /\ is_number(LastLog.session.start_offset)
    /\ LastLog.closed_at = event[1].timestamp
    /\ LastLog.closed_at - LastLog.session.start_timestamp
         = VIDEO_SESSION_DANGLING_THRESHOLD

----------------------------------------------------------------------------
\* C4: every Seek closes the open session, if there is one, at the seek's
\* old offset, and in every case leaves a session open that starts at the
\* seek's new offset and timestamp.
C4_SeekReopens ==
    [][ ( /\ Iterated
          /\ event'[1].event_type = VIDEO_POSITION_CHANGED )
        => /\ pc' = "loop"
           /\ IF session # <<>>
              THEN Emits(session[1], event'[1].old_time)
              ELSE out' = out
           /\ session' = <<Opened(event'[1])>> ]_vars

----------------------------------------------------------------------------
\* C5: a Pause or Stop with offset e that arrives while a session with start
\* offset s is open yields exactly the record (s, e) if e - s >= 1 and no
\* record otherwise, whatever time has passed since the session started, and
\* leaves no session open.
C5_PauseStopCloses ==
    [][ ( /\ Iterated
          /\ session # <<>>
          /\ event'[1].event_type \in {VIDEO_PAUSED, VIDEO_STOPPED}
          /\ ~float_raises(event'[1].current_time) )
        => /\ pc' = "loop"
           /\ session' = <<>>
           /\ Emits(session[1], float(event'[1].current_time)) ]_vars

\* a Pause or Stop closed a session more than the dangling threshold after
\* its start, and the record was yielded
C5_Witness ==
    /\ pc = "loop" /\ event # <<>> /\ log # <<>> /\ out # <<>>
    /\ event[1].event_type \in {VIDEO_PAUSED, VIDEO_STOPPED}
    /\ session = <<>>
    /\ LastLog.closes = 1 /\ LastLog.emits = 1
    /\ LastLog.closed_at = event[1].timestamp
    /\ LastLog.closed_at - LastLog.session.start_timestamp
         > VIDEO_SESSION_DANGLING_THRESHOLD
    /\ out[Len(out)].session_id = LastLog.session.session_id

----------------------------------------------------------------------------
\* C6: at most one session is open at any point of the pass, a session is
\* opened no earlier than the event that closed the one before it, and the
\* records come out in non-decreasing order of start_timestamp.
C6_NoOverlap ==
    /\ Cardinality({k \in 1..Len(log) : log[k].closes = 0}) <= 1
    /\ (pc = "loop" /\ session # <<>>
          => log # <<>> /\ LastLog.closes = 0 /\ LastLog.session = session[1])
    /\ (pc = "loop" /\ session = <<>>
          => \A k \in 1..Len(log) : log[k].closes > 0)
    /\ \A j, k \in 1..Len(log) :
          j < k => /\ log[j].closes > 0
                   /\ log[j].session.start_timestamp <= log[j].closed_at
                   /\ log[j].closed_at <= log[k].session.start_timestamp
    /\ \A m, n \in 1..Len(out) :
          m < n => out[m].start_timestamp <= out[n].start_timestamp

\* two sessions at different instants, both yielded, and a third one open
C6_Witness ==
    /\ Len(out) = 2 /\ Len(log) = 3 /\ session # <<>>
    /\ out[1].start_timestamp < out[2].start_timestamp
    /\ log[1].closed_at < log[2].closed_at

----------------------------------------------------------------------------
\* C7: when the reducer finishes no session is open and every session that
\* was opened has been resolved exactly once, as one record or as none; so
\* there are at most as many records as Play and Seek events.
C7_ResolvedOnce ==
    /\ \A k \in 1..Len(log) : log[k].closes <= 1 /\ log[k].emits <= log[k].closes
    /\ Len(out) = SumEmits(log)
    /\ Len(out) <= seen.play_seek
    /\ (pc = "done"
          => /\ session = <<>>
             /\ \A k \in 1..Len(log) : log[k].closes = 1)

\* the reducer finished after three sessions, yielded and discarded ones
\* among them, the last one resolved by the final flush
C7_Witness ==
    /\ pc = "done" /\ Len(log) = 3
    /\ \E k \in 1..Len(log) : log[k].emits = 1
    /\ \E k \in 1..Len(log) : log[k].emits = 0
    /\ event[1].event_type \in {VIDEO_PLAYED, VIDEO_POSITION_CHANGED}

----------------------------------------------------------------------------
\* C8: no event makes the reducer raise; it reaches the end of every
\* sequence.
C8_NeverRaises == pc # "raised"

----------------------------------------------------------------------------
\* the event of this step closes the open session, and the start offset or
\* the end offset of that close is None
ClosesWithMissingOffset ==
    LET e == event'[1]
        s == session[1]
    IN  CASE e.event_type \in {VIDEO_PAUSED, VIDEO_STOPPED} ->
                 s.start_offset = NoneV \/ e.current_time = NoneV
          [] e.event_type = VIDEO_POSITION_CHANGED ->
                 s.start_offset = NoneV \/ e.old_time = NoneV
          [] e.event_type = VIDEO_PLAYED ->
                 /\ Elapsed >= timedelta(VIDEO_SESSION_THRESHOLD_MIN)
                 /\ (s.start_offset = NoneV \/ e.current_time = NoneV)
          [] OTHER -> s.start_offset = NoneV

\* C9: a close whose start or end offset is missing yields no record and
\* updates the state as a successful close does: no session after a Pause,
\* Stop or indicator, the new session after a Play or Seek; the loop goes on.
C9_MissingOffsetClose ==
    [][ ( /\ Iterated
          /\ session # <<>>
          /\ ~float_raises(event'[1].current_time)
          /\ ClosesWithMissingOffset )
        => /\ pc' = "loop"
           /\ out' = out
           /\ session' = IF opens_session(event'[1])
                         THEN <<Opened(event'[1])>>
                         ELSE <<>> ]_vars

----------------------------------------------------------------------------
Perms(seq) ==
    { [n \in 1..Len(seq) |-> seq[p[n]]] : p \in Permutations(1..Len(seq)) }

----------------------------------------------------------------------------
(* UserVideoSessionTask.mapper *)

\* One line of the event log, as the helpers of the mapper see it:
\* parsed is FALSE when get_event_and_date_string(line) is None; time is
\* <<>> when get_event_time_string(event) is None; event_data is what
\* get_event_data(event) returns, a key the payload lacks reading None.
EventData(id, old, new, cur) ==
    [ id |-> id, old_time |-> old, new_time |-> new, currentTime |-> cur ]

EventLine(parsed, user, ty, time, data) ==
    [ parsed |-> parsed, username |-> user, event_type |-> ty,
      time |-> time, event_data |-> data ]

\* the mapper with old_time and new_time of a seek taken for each other
UserVideoSessionTask_mapper_swapped(line) ==
    IF ~line.parsed \/ line.username \in {None, ""}
       \/ line.event_type = None \/ line.time = <<>>
       \/ line.event_type \notin VIDEO_EVENT_TYPES
    THEN <<>>
    ELSE << << line.username,
               Event(line.time[1], line.event_type, line.event_data.id,
                     line.event_data.new_time, line.event_data.old_time) >> >>

\* the pairs (username, (timestamp, event_type, encoded_module_id,
\* old_time, current_time)) the mapper yields for one line: none or one
UserVideoSessionTask_mapper(line) ==
    IF ~line.parsed THEN <<>>
    ELSE IF line.username = None THEN <<>>
    ELSE IF line.username = "" THEN <<>>
    ELSE IF line.event_type = None THEN <<>>
    ELSE IF line.time = <<>> THEN <<>>
    ELSE IF line.event_type \in VIDEO_EVENT_TYPES
    THEN IF line.event_type = VIDEO_POSITION_CHANGED
         THEN << << line.username,
                    Event(line.time[1], line.event_type,
                          line.event_data.id, line.event_data.old_time,
                          line.event_data.new_time) >> >>
         ELSE << << line.username,
                    Event(line.time[1], line.event_type,
                          line.event_data.id, NoneV,
                          line.event_data.currentTime) >> >>
    ELSE IF line.event_type \in VIDEO_SESSION_END_INDICATORS
    THEN << << line.username,
               Event(line.time[1], line.event_type, None, NoneV, NoneV) >> >>
    ELSE <<>>

----------------------------------------------------------------------------
(* VideoUsageTask *)

VIDEO_SESSION_SECONDS_PER_SEGMENT == 5

\* The offsets of a line of the session table are decimal numbers.  The
\* model counts them in ticks, TicksPerSecond to the second, so that
\* math.floor and math.ceil have fractions to round.
TicksPerSecond == 2

\* int(math.floor(float(text))) and int(math.ceil(float(text)))
floor(ticks) == ticks \div TicksPerSecond
ceil(ticks) == -((-ticks) \div TicksPerSecond)

\* xrange(start, stop, step) for a positive step
xrange(start, stop, step) ==
    LET n == IF stop <= start THEN 0 ELSE (stop - start + step - 1) \div step
    IN  [i \in 1..n |-> start + (i - 1) * step]

\* the line '\t'.join(...) of a record of UserVideoSessionTask
line_of(record) ==
    [ username          |-> record.username,
      session_id        |-> record.session_id,
      encoded_module_id |-> record.encoded_module_id,
      start_timestamp   |-> record.start_timestamp,
      start_offset      |-> record.start_offset * TicksPerSecond,
      end_offset        |-> record.end_offset * TicksPerSecond ]

\* the mapper with the end of the session rounded down
VideoUsageTask_mapper_floor_end(line) ==
    LET start_segment ==
            (floor(line.start_offset) \div VIDEO_SESSION_SECONDS_PER_SEGMENT)
            * VIDEO_SESSION_SECONDS_PER_SEGMENT
        segments == xrange(start_segment, floor(line.end_offset),
                           VIDEO_SESSION_SECONDS_PER_SEGMENT)
    IN  [ i \in 1..Len(segments) |->
            << <<line.encoded_module_id, segments[i]>>, line.username >> ]

\* the mapper with the segment the session starts in left out
VideoUsageTask_mapper_skips_first(line) ==
    LET start_segment ==
            (floor(line.start_offset) \div VIDEO_SESSION_SECONDS_PER_SEGMENT)
            * VIDEO_SESSION_SECONDS_PER_SEGMENT
        segments == xrange(start_segment + VIDEO_SESSION_SECONDS_PER_SEGMENT,
                           ceil(line.end_offset),
                           VIDEO_SESSION_SECONDS_PER_SEGMENT)
    IN  [ i \in 1..Len(segments) |->
            << <<line.encoded_module_id, segments[i]>>, line.username >> ]

\* the pairs ((encoded_module_id, segment), username) of one line
VideoUsageTask_mapper(line) ==
    LET first_second == floor(line.start_offset)
        start_segment ==
            (first_second \div VIDEO_SESSION_SECONDS_PER_SEGMENT)
            * VIDEO_SESSION_SECONDS_PER_SEGMENT
        last_second == ceil(line.end_offset)
        segments == xrange(start_segment, last_second,
                           VIDEO_SESSION_SECONDS_PER_SEGMENT)
    IN  [ i \in 1..Len(segments) |->
            << <<line.encoded_module_id, segments[i]>>, line.username >> ]

\* the local variables of the reducer before its loop
usage_start == [ num_views |-> 0, users |-> {} ]

\* one iteration of the loop with users a list instead of a set
usage_loop_body_list(acc, name) ==
    [ num_views |-> acc.num_views + 1,
      users     |-> acc.users \cup {<<acc.num_views, name>>} ]

\* one iteration of the loop over the usernames
usage_loop_body(acc, name) ==
    [ num_views |-> acc.num_views + 1, users |-> acc.users \cup {name} ]

RECURSIVE usage_loop(_, _)
usage_loop(acc, usernames) ==
    IF usernames = <<>> THEN acc
    ELSE usage_loop(usage_loop_body(acc, Head(usernames)), Tail(usernames))

\* the row the reducer yields after its loop
usage_row(key, acc) == << key[1], key[2], Cardinality(acc.users), acc.num_views >>

VideoUsageTask_reducer(key, usernames) ==
    << usage_row(key, usage_loop(usage_start, usernames)) >>

----------------------------------------------------------------------------
(* SpecStages: one call of a mapper or of VideoUsageTask.reducer *)

MaxSecond == 12
MaxGroup == 3

StageUsers == {"u1", "u2", "u3"}

EventLines ==
    { EventLine(parsed, user, ty, time, EventData(id, old, new, cur)) :
        parsed \in BOOLEAN, user \in {None, "", "u1", "u2"},
        ty \in VIDEO_EVENT_TYPES
               \cup {None, "seq_next", "page_close", "problem_check"},
        time \in {<<>>, <<0>>},
        id \in {None, "m1"}, old \in {NoneV, Num(1)},
        new \in {NoneV, Num(2)}, cur \in {NoneV, Num(3)} }

Ticks == (0 - TicksPerSecond) .. (MaxSecond * TicksPerSecond)

SessionLines ==
    { [ username |-> user, session_id |-> session_id_of(user, "m1", 0),
        encoded_module_id |-> "m1", start_timestamp |-> 0,
        start_offset |-> a, end_offset |-> b ] :
        user \in {"u1", "u2"}, a \in Ticks, b \in Ticks }

UsageKeys == { <<"m1", 0>>, <<"m2", VIDEO_SESSION_SECONDS_PER_SEGMENT>> }
UsageGroups == UNION { [1..n -> StageUsers] : n \in 1..MaxGroup }

Called(op, input, output) == [ op |-> op, input |-> input, output |-> output ]

InitStages ==
    /\ username \in Usernames
    /\ events = <<>>
    /\ pc = "stages"
    /\ session = <<>>
    /\ out = <<>>
    /\ event = <<>>
    /\ log = <<>>
    /\ seen = NothingSeen
    /\ stage = NoStage
    /\ calls = NoCalls

\* a call is made on an input and leaves the rest of the state alone
StageFrame ==
    /\ stage = NoStage
    /\ UNCHANGED <<username, events, pc, session, out, event, log, seen, calls>>

MapEvent ==
    \E line \in EventLines :
        /\ StageFrame
        /\ stage' = Called("UserVideoSessionTask.mapper", line,
                           UserVideoSessionTask_mapper(line))

MapSession ==
    \E line \in SessionLines :
        /\ StageFrame
        /\ stage' = Called("VideoUsageTask.mapper", line,
                           VideoUsageTask_mapper(line))

\* a reducer is called with at least one value
ReduceUsage ==
    \E key \in UsageKeys, usernames \in UsageGroups :
        /\ StageFrame
        /\ stage' = Called("VideoUsageTask.reducer",
                           [key |-> key, usernames |-> usernames],
                           VideoUsageTask_reducer(key, usernames))

NextStages == MapEvent \/ MapSession \/ ReduceUsage

SpecStages == InitStages /\ [][NextStages]_vars

----------------------------------------------------------------------------
(* SpecParallel: two reducer calls of one task, for different keys, whose   *)
(* steps interleave.  kind "sessions": UserVideoSessionTask.reducer for two *)
(* users; kind "usage": VideoUsageTask.reducer for two (module, segment)    *)
(* groups.                                                                  *)

MaxParallel == 2

CallIds == {1, 2}

SessionKeys == << "u1", "u2" >>
GroupKeys == << <<"m1", 0>>, <<"m1", VIDEO_SESSION_SECONDS_PER_SEGMENT>> >>

ParallelUniverse ==
    { Event(0, VIDEO_PLAYED, "m1", NoneV, Num(0)),
      Event(0, VIDEO_PLAYED, None, NoneV, Num(0)),
      Event(1, VIDEO_PAUSED, "m1", NoneV, Num(1)),
      Event(1, "seq_next", None, NoneV, NoneV) }

ParallelEvents == UNION { [1..n -> ParallelUniverse] : n \in 1..MaxParallel }
ParallelGroups == UNION { [1..n -> StageUsers] : n \in 1..MaxParallel }

\* all calls would keep their local variables in one place
local_slot_shared(c) == 1

\* session, num_views and users are local variables: each call has its own
local_slot(c) == c

InitParallel ==
    /\ username \in Usernames
    /\ events = <<>>
    /\ pc = "parallel"
    /\ session = <<>>
    /\ out = <<>>
    /\ event = <<>>
    /\ log = <<>>
    /\ seen = NothingSeen
    /\ stage = NoStage
    /\ \E kind \in {"sessions", "usage"} :
       \E input \in IF kind = "sessions" THEN [CallIds -> ParallelEvents]
                                         ELSE [CallIds -> ParallelGroups] :
          calls = [ kind   |-> kind,
                    key    |-> IF kind = "sessions" THEN SessionKeys
                                                    ELSE GroupKeys,
                    input  |-> input,
                    todo   |-> [c \in CallIds |-> <<>>],
                    st     |-> [c \in CallIds |-> [pc |-> "start"]],
                    locals |-> [c \in CallIds |-> <<>>] ]

ParallelFrame ==
    UNCHANGED <<username, events, pc, session, out, event, log, seen, stage>>

\* the statements before the loop
StartCall(c) ==
    /\ calls # NoCalls
    /\ calls.st[c].pc = "start"
    /\ calls' =
         IF calls.kind = "sessions"
         THEN [ calls EXCEPT
                  !.todo[c] = sorted(calls.input[c]),
                  !.st[c] = State("loop", <<>>, <<>>, <<>>, <<>>,
                                  NothingSeen),
                  !.locals[local_slot(c)] = <<>> ]
         ELSE [ calls EXCEPT
                  !.todo[c] = calls.input[c],
                  !.st[c] = [pc |-> "loop", out |-> <<>>],
                  !.locals[local_slot(c)] = usage_start ]
    /\ ParallelFrame

\* the state of session call c, its session read from where it is kept
SessionState(c) ==
    [ calls.st[c] EXCEPT !.session = calls.locals[local_slot(c)] ]

\* one iteration of the loop of UserVideoSessionTask.reducer
SessionStep(c) ==
    /\ calls # NoCalls
    /\ calls.kind = "sessions"
    /\ calls.st[c].pc = "loop"
    /\ calls.todo[c] # <<>>
    /\ LET st == after_event(calls.key[c], SessionState(c),
                             Head(calls.todo[c]))
       IN  calls' = [ calls EXCEPT
                        !.todo[c] = Tail(calls.todo[c]),
                        !.st[c] = st,
                        !.locals[local_slot(c)] = st.session ]
    /\ ParallelFrame

\* the statements after the loop of UserVideoSessionTask.reducer
SessionFlush(c) ==
    /\ calls # NoCalls
    /\ calls.kind = "sessions"
    /\ calls.st[c].pc = "loop"
    /\ calls.todo[c] = <<>>
    /\ LET st == after_loop(calls.key[c], SessionState(c))
       IN  calls' = [ calls EXCEPT
                        !.st[c] = st,
                        !.locals[local_slot(c)] = st.session ]
    /\ ParallelFrame

\* one iteration of the loop of VideoUsageTask.reducer
UsageStep(c) ==
    /\ calls # NoCalls
    /\ calls.kind = "usage"
    /\ calls.st[c].pc = "loop"
    /\ calls.todo[c] # <<>>
    /\ calls' = [ calls EXCEPT
                    !.todo[c] = Tail(calls.todo[c]),
                    !.locals[local_slot(c)] =
                        usage_loop_body(calls.locals[local_slot(c)],
                                        Head(calls.todo[c])) ]
    /\ ParallelFrame

\* the yield after the loop of VideoUsageTask.reducer
UsageYield(c) ==
    /\ calls # NoCalls
    /\ calls.kind = "usage"
    /\ calls.st[c].pc = "loop"
    /\ calls.todo[c] = <<>>
    /\ calls' = [ calls EXCEPT
                    !.st[c] = [ pc  |-> "done",
                                out |-> << usage_row(calls.key[c],
                                             calls.locals[local_slot(c)]) >> ] ]
    /\ ParallelFrame

NextParallel ==
    \E c \in CallIds :
        \/ StartCall(c)
        \/ SessionStep(c)
        \/ SessionFlush(c)
        \/ UsageStep(c)
        \/ UsageYield(c)

SpecParallel == InitParallel /\ [][NextParallel]_vars

----------------------------------------------------------------------------
(* Claims about the stages *)

\* the segments a call of VideoUsageTask.mapper yielded, in order
SegmentsOf(output) == [ i \in 1..Len(output) |-> output[i][1][2] ]

Seconds == (0 - 2 * VIDEO_SESSION_SECONDS_PER_SEGMENT)
           .. (MaxSecond + 2 * VIDEO_SESSION_SECONDS_PER_SEGMENT)
Multiples == { b \in Seconds : b % VIDEO_SESSION_SECONDS_PER_SEGMENT = 0 }

\* floor(ticks / 5 seconds) * 5 and ceil(ticks), by their definitions
FloorSegment(ticks) ==
    CHOOSE b \in Multiples :
        /\ b * TicksPerSecond <= ticks
        /\ ticks < (b + VIDEO_SESSION_SECONDS_PER_SEGMENT) * TicksPerSecond
CeilSecond(ticks) ==
    CHOOSE c \in Seconds :
        (c - 1) * TicksPerSecond < ticks /\ ticks <= c * TicksPerSecond

\* the bucket [b, b+5) and the interval [start, end) have a point in common
Intersects(b, start, end) ==
    /\ start < end
    /\ b * TicksPerSecond < end
    /\ start < (b + VIDEO_SESSION_SECONDS_PER_SEGMENT) * TicksPerSecond

\* C11: for a line (start_offset, end_offset) of the session table,
\* VideoUsageTask.mapper yields exactly the multiples b of 5 with
\* floor(start_offset/5)*5 <= b < ceil(end_offset), each once and in
\* ascending order, each with the module id and the username of the line;
\* for a session (start_offset < end_offset) these are the buckets
\* [b, b+5) that intersect [start_offset, end_offset).
C11_UsageBuckets ==
    stage.op = "VideoUsageTask.mapper"
    => LET line == stage.input
           segments == SegmentsOf(stage.output)
           yielded == { segments[i] : i \in 1..Len(segments) }
       IN  /\ yielded = { b \in Multiples :
                            /\ FloorSegment(line.start_offset) <= b
                            /\ b < CeilSecond(line.end_offset) }
           /\ \A i, j \in 1..Len(segments) :
                 i < j => segments[i] < segments[j]
           /\ \A i \in 1..Len(segments) :
                 stage.output[i] =
                     << <<line.encoded_module_id, segments[i]>>,
                        line.username >>
           /\ line.start_offset < line.end_offset
              => yielded = { b \in Multiples :
                               Intersects(b, line.start_offset,
                                          line.end_offset) }

\* a session that starts and ends between two seconds and covers three
\* buckets, the first and the last in part
C11_Witness ==
    /\ stage.op = "VideoUsageTask.mapper"
    /\ stage.input.start_offset % TicksPerSecond # 0
    /\ stage.input.end_offset % TicksPerSecond # 0
    /\ floor(stage.input.start_offset) % VIDEO_SESSION_SECONDS_PER_SEGMENT # 0
    /\ SegmentsOf(stage.output)
           = << 0, VIDEO_SESSION_SECONDS_PER_SEGMENT,
                2 * VIDEO_SESSION_SECONDS_PER_SEGMENT >>

\* C12: for a (module_id, bucket) group VideoUsageTask.reducer yields
\* exactly one row (module_id, bucket, distinct users, views), views the
\* number of usernames received, repeats counted, and distinct users the
\* number of different usernames; so 1 <= distinct users <= views; the row
\* is the same in whatever order the usernames arrive.
C12_UsageRow ==
    stage.op = "VideoUsageTask.reducer"
    => LET key == stage.input.key
           usernames == stage.input.usernames
           distinct == { usernames[i] : i \in 1..Len(usernames) }
       IN  /\ stage.output
                 = << << key[1], key[2], Cardinality(distinct),
                         Len(usernames) >> >>
           /\ 1 <= stage.output[1][3]
           /\ stage.output[1][3] <= stage.output[1][4]
           /\ \A q \in Perms(usernames) :
                 VideoUsageTask_reducer(key, q) = stage.output

\* a group in which one user viewed the bucket twice and another once
C12_Witness ==
    /\ stage.op = "VideoUsageTask.reducer"
    /\ Len(stage.input.usernames) = 3
    /\ stage.output[1][3] = 2
    /\ stage.input.usernames[1] # stage.input.usernames[2]
    /\ stage.input.usernames[1] = stage.input.usernames[3]

\* the line has no username, an empty one, no event_type, no timestamp, or
\* an event_type that is neither a video event nor an end indicator
Unclassified(line) ==
    \/ line.username = None
    \/ line.username = ""
    \/ line.event_type = None
    \/ line.time = <<>>
    \/ line.event_type
           \notin VIDEO_EVENT_TYPES \cup VIDEO_SESSION_END_INDICATORS

\* C13: UserVideoSessionTask.mapper yields nothing for a line without a
\* username or with an empty one, without event_type, without timestamp,
\* or of a type that is neither a video event nor an end indicator; for a
\* seek it yields (old_time, new_time) as old and new offset; for
\* play/pause/stop no old offset and currentTime as new offset; for an end
\* indicator no module id and no offsets.  What it yields is keyed by the
\* username of the event.
C13_MapperClassifies ==
    (stage.op = "UserVideoSessionTask.mapper" /\ stage.input.parsed)
    => LET line == stage.input
           data == line.event_data
           ts == line.time[1]
       IN  IF Unclassified(line) THEN stage.output = <<>>
           ELSE /\ Len(stage.output) = 1
                /\ stage.output[1][1] = line.username
                /\ stage.output[1][2] =
                     IF line.event_type = VIDEO_POSITION_CHANGED
                     THEN Event(ts, line.event_type, data.id,
                                data.old_time, data.new_time)
                     ELSE IF line.event_type
                               \in {VIDEO_PLAYED, VIDEO_PAUSED, VIDEO_STOPPED}
                     THEN Event(ts, line.event_type, data.id,
                                NoneV, data.currentTime)
                     ELSE Event(ts, line.event_type, None, NoneV, NoneV)

\* a seek with both offsets in its payload was mapped
C13_Witness ==
    /\ stage.op = "UserVideoSessionTask.mapper"
    /\ stage.input.event_type = VIDEO_POSITION_CHANGED
    /\ stage.input.event_data.old_time # NoneV
    /\ stage.input.event_data.new_time # NoneV
    /\ stage.output # <<>>

\* the part of its input call c has taken so far
Taken(c) ==
    LET all == IF calls.kind = "sessions" THEN sorted(calls.input[c])
                                          ELSE calls.input[c]
    IN  SubSeq(all, 1, Len(all) - Len(calls.todo[c]))

\* where call c is when it runs alone and has taken as much of its input
AloneSession(c) ==
    IF calls.st[c].pc = "done"
    THEN reducer(calls.key[c], calls.input[c])
    ELSE run_loop(calls.key[c],
                  State("loop", <<>>, <<>>, <<>>, <<>>,
                        NothingSeen),
                  Taken(c))

\* C14: partitions are independent.  When the reducer calls of two users
\* run with their steps interleaved, each call is at every moment where it
\* is when it runs alone on its own events (open session, records yielded,
\* exception raised), whatever the other call did meanwhile, and so ends
\* with the records it yields alone; the same for the calls of
\* VideoUsageTask.reducer for two (module, segment) groups: counters and
\* row are those of the call running alone.
C14_PartitionsIndependent ==
    calls # NoCalls
    => \A c \in CallIds :
          calls.st[c].pc # "start"
          => IF calls.kind = "sessions"
             THEN SessionState(c) = AloneSession(c)
             ELSE IF calls.st[c].pc = "done"
             THEN calls.st[c].out
                      = VideoUsageTask_reducer(calls.key[c], calls.input[c])
             ELSE calls.locals[local_slot(c)]
                      = usage_loop(usage_start, Taken(c))

\* both calls ended, after steps of the one between steps of the other:
\* two users whose sessions each gave a record, or two groups
C14_Witness ==
    /\ calls # NoCalls
    /\ \A c \in CallIds : calls.st[c].pc = "done" /\ calls.st[c].out # <<>>
    /\ calls.input[1] # calls.input[2]
    /\ Len(calls.input[1]) = MaxParallel

----------------------------------------------------------------------------
(* Claims about the loop of UserVideoSessionTask.reducer, continued *)

\* the Play of this step finds a session open that started less than
\* timedelta(VIDEO_SESSION_THRESHOLD_MIN) before it: "continue"
SkippedPlay ==
    /\ session # <<>>
    /\ event'[1].event_type = VIDEO_PLAYED
    /\ ~float_raises(event'[1].current_time)
    /\ Elapsed < timedelta(VIDEO_SESSION_THRESHOLD_MIN)

\* C15: a Pause, a Stop or an end indicator that arrives while no session
\* is open yields no record and leaves no session open; a Play that is
\* skipped as a duplicate yields no record and leaves the open session as
\* it was (id, start timestamp, module id, start offset).
C15_NothingToClose ==
    [][ Iterated
        => /\ ( /\ session = <<>>
                /\ event'[1].event_type
                     \in {VIDEO_PAUSED, VIDEO_STOPPED}
                         \cup VIDEO_SESSION_END_INDICATORS )
              => out' = out /\ session' = <<>> /\ log' = log
           /\ SkippedPlay
              => out' = out /\ session' = session /\ log' = log ]_vars

\* three events: one that is neither Play nor Seek found no session open,
\* a Play or Seek opened one, and a later Play was skipped
C15_Witness ==
    /\ seen.events = 3 /\ seen.play_seek = 2
    /\ Len(log) = 1 /\ session # <<>> /\ out = <<>>
    /\ event[1].event_type = VIDEO_PLAYED
    /\ session[1].start_timestamp < event[1].timestamp

----------------------------------------------------------------------------
\* this step is the statements after the loop; event[1] is the last event
Flushed == pc = "loop" /\ pc' = "done"

\* seconds between the start of the open session and the last event
FlushElapsed == event[1].timestamp - session[1].start_timestamp

\* what the claim says of a final flush apart from the condition to emit:
\* a session opened by the last event is not emitted, and a record is
\* emitted only if every event after the one that opened the session was a
\* Play skipped as a duplicate
FlushOnlyAfterSkippedPlays ==
    /\ (session # <<>> /\ seen.events = 1) => out' = out
    /\ (session # <<>> /\ event[1].timestamp = session[1].start_timestamp)
       => out' = out
    /\ out' # out
       => /\ seen.others_since_open = 0
          /\ seen.events >= 2
          /\ event[1].event_type = VIDEO_PLAYED
          /\ event[1].timestamp > session[1].start_timestamp

\* C16 as stated: the final flush measures the time from the start of the
\* open session to the timestamp of the last event and emits
\* (start_offset, start_offset + elapsed) exactly when a session is open
\* and 1 <= elapsed < 1800.
C16_FlushWheneverInRange ==
    [][ Flushed
        => /\ session' = <<>>
           /\ IF session # <<>> /\ 1 <= FlushElapsed
                 /\ FlushElapsed < VIDEO_SESSION_DANGLING_THRESHOLD
              THEN out' = Append(out, RecordOf(session[1],
                                   session[1].start_offset.v + FlushElapsed))
              ELSE out' = out
           /\ FlushOnlyAfterSkippedPlays ]_vars

\* C16 amended: the final flush emits (start_offset, start_offset + elapsed)
\* exactly when a session is open, its start offset is a number and
\* 1 <= elapsed < 1800, elapsed being the time from the start of the
\* session to the timestamp of the last event; a session opened by the
\* last event is not emitted, and a record is emitted only if every event
\* after the one that opened the session was a Play skipped as a duplicate.
C16_FlushInRangeWithOffset ==
    [][ Flushed
        => /\ session' = <<>>
           /\ IF session # <<>> /\ 1 <= FlushElapsed
                 /\ FlushElapsed < VIDEO_SESSION_DANGLING_THRESHOLD
                 /\ is_number(session[1].start_offset)
              THEN out' = Append(out, RecordOf(session[1],
                                   session[1].start_offset.v + FlushElapsed))
              ELSE out' = out
           /\ FlushOnlyAfterSkippedPlays ]_vars

\* the final flush emitted the session that a skipped Play had left open
C16_Witness ==
    /\ pc = "done"
    /\ event[1].event_type = VIDEO_PLAYED
    /\ LastLog.emits = 1
    /\ LastLog.closed_at = event[1].timestamp
    /\ out[Len(out)].end_offset
         = out[Len(out)].start_offset
           + (event[1].timestamp - out[Len(out)].start_timestamp)

----------------------------------------------------------------------------
\* the end offset an explicit close by event e uses
ClosingOffset(e) ==
    IF e.event_type = VIDEO_POSITION_CHANGED THEN e.old_time
    ELSE float(e.current_time)

\* the Pause, Stop, Play or Seek of this step names a module, and not the
\* one of the open session
OtherModule ==
    /\ session # <<>>
    /\ event'[1].event_type \in VIDEO_EVENT_TYPES
    /\ event'[1].encoded_module_id \notin {None, session[1].encoded_module_id}

\* the Play of this step comes less than VIDEO_SESSION_THRESHOLD_MIN seconds
\* after the start of the open session
DuplicatePlay ==
    /\ session # <<>>
    /\ event'[1].event_type = VIDEO_PLAYED
    /\ Elapsed < VIDEO_SESSION_THRESHOLD_MIN

\* C17: a session has the module id, the start timestamp and the start
\* offset of the Play or Seek that opened it (the Play's offset, the Seek's
\* new offset) and keeps them while it is open; every record yielded
\* carries those of the session that was open, never those of the event
\* that closed it; a Pause, Stop, Seek or Play (one that is no duplicate)
\* for another module than that of the open session closes the session all
\* the same, with the closing event's offset as end offset.
C17_RecordOfOpeningEvent ==
    [][ /\ (Iterated /\ Len(log') > Len(log))
           => /\ opens_session(event'[1])
              /\ session' = <<Opened(event'[1])>>
              /\ LastLog' = [ session |-> session'[1],
                              closed_at |-> event'[1].timestamp,
                              closes |-> 0, emits |-> 0 ]
        /\ (Iterated /\ Len(log') = Len(log) /\ session' # <<>>)
           => session' = session
        /\ out' # out
           => /\ session # <<>>
              /\ Len(out') = Len(out) + 1
              /\ \A n \in 1..Len(out) : out'[n] = out[n]
              /\ LET record == out'[Len(out')]
                     key == << record.username, record.session_id,
                               record.encoded_module_id,
                               record.start_timestamp, record.start_offset >>
                 IN  /\ key = << username, session[1].session_id,
                                 session[1].encoded_module_id,
                                 session[1].start_timestamp,
                                 session[1].start_offset.v >>
                     /\ (Iterated /\ event'[1].event_type \in VIDEO_EVENT_TYPES)
                        => record.end_offset = ClosingOffset(event'[1]).v
        /\ (Iterated /\ OtherModule /\ ~DuplicatePlay /\ pc' = "loop")
           => /\ Emits(session[1], ClosingOffset(event'[1]))
              /\ session' = IF opens_session(event'[1])
                            THEN <<Opened(event'[1])>> ELSE <<>> ]_vars

----------------------------------------------------------------------------
\* C18: among the records yielded for one user no two different records
\* have the same session_id, that is the same module id and the same
\* timestamp of the opening event, also when several Play or Seek events
\* carry the same timestamp.
C18_SessionIdUnique ==
    \A m, n \in 1..Len(out) :
        out[m] # out[n] => out[m].session_id # out[n].session_id

----------------------------------------------------------------------------
\* what VideoUsageTask.mapper yields for the n-th record of the reducer
PairsOf(n) == VideoUsageTask_mapper(line_of(out[n]))

\* C19: every record the sessionizer yields (end_offset - start_offset >= 1)
\* gives at least one (module, segment) pair in VideoUsageTask.mapper, the
\* first for the segment its start offset lies in, the last for a segment
\* that begins before its end offset, for the module and the user of the
\* record; no record has
\* ceil(end_offset) <= floor(start_offset/5)*5, the one case in which the
\* mapper yields nothing.
C19_RecordHasBucket ==
    \A n \in 1..Len(out) :
        LET first_segment ==
                out[n].start_offset
                - (out[n].start_offset % VIDEO_SESSION_SECONDS_PER_SEGMENT)
            pairs == PairsOf(n)
            last == pairs[Len(pairs)]
        IN  /\ out[n].end_offset > first_segment
            /\ Len(pairs) >= 1
            /\ pairs[1] = << <<out[n].encoded_module_id, first_segment>>,
                             out[n].username >>
            /\ last[1][1] = out[n].encoded_module_id
            /\ last[1][2] < out[n].end_offset
            /\ last[2] = out[n].username

\* a record of the least length, 1 second, which gives one pair, and a
\* longer one that gives several
C19_Witness ==
    /\ \E n \in 1..Len(out) :
          /\ out[n].end_offset - out[n].start_offset = 1
          /\ Len(PairsOf(n)) = 1
    /\ \E n \in 1..Len(out) : Len(PairsOf(n)) > 1

====
